---- MODULE Spec2Model ----
(***************************************************************************)
(* A model of database.py: an in-memory Database of named Tables, each     *)
(* with a list of typed Fields and a list of Rows.                         *)
(*                                                                         *)
(* Objects live in a heap: a Table object is identified by its index in    *)
(* `heap`, a Row object by its index in its table's row list (rows are     *)
(* only ever appended).  A Python dict is a function whose domain is its   *)
(* key set; dict equality and lookup do not depend on insertion order.     *)
(* kwargs and the argument of add_fields are sequences of <<key, value>>   *)
(* pairs with distinct keys, in the caller's order, because the code       *)
(* iterates them.  A value is a record [ty, v]: its class and its payload. *)
(***************************************************************************)
EXTENDS Integers, Sequences, FiniteSets, TLC

\* -------------------------------------------------------------------------
\* Bounds of the model
\* -------------------------------------------------------------------------
MaxFields == 2
MaxRows == 2
QMaxRows == 3
MaxAmount == 2
MaxNegAmount == 1
DbMaxTables == 2
DbMaxFields == 1
DbMaxRows == 1

\* -------------------------------------------------------------------------
\* Input domains
\* -------------------------------------------------------------------------
FieldNames == {"name", "age"}
Types == {"str", "int"}
TableNames == {"users", "orders"}

StrAna == [ty |-> "str", v |-> 0]
Int1 == [ty |-> "int", v |-> 1]
Int2 == [ty |-> "int", v |-> 2]
BoolTrue == [ty |-> "bool", v |-> 1]
Values == {StrAna, Int1, BoolTrue}

\* The narrower domains of the lookup and database specifications: one
\* column, values that differ and values that are equal across classes.
QFieldNames == {"age"}
QTypes == {"int"}
QValues == {Int1, Int2, BoolTrue}
DbValues == {Int1}

Amounts == (0 - MaxNegAmount)..MaxAmount

\* heap:    the Table objects constructed so far (Table.__init__), by reference
\* tables:  Database._tables, from table name to Table reference
\* created: what the caller got back from each Database.create, in call order
\* outcome: the last call, its arguments and what it returned or raised
VARIABLES heap, tables, created, outcome

vars == <<heap, tables, created, outcome>>

\* -------------------------------------------------------------------------
\* Python built-ins the code relies on
\* -------------------------------------------------------------------------
EmptyDict == [k \in {} |-> 0]

DictSet(d, key, value) ==
    [k \in (DOMAIN d) \cup {key} |-> IF k = key THEN value ELSE d[k]]

\* bool is a subclass of int: isinstance(True, int) is True.
isinstance(value, data_type) ==
    \/ value.ty = data_type
    \/ value.ty = "bool" /\ data_type = "int"

\* ==: int and bool compare by number (True == 1), anything else by class
\* and payload.
PyEq(a, b) ==
    IF a.ty \in {"int", "bool"} /\ b.ty \in {"int", "bool"}
    THEN a.v = b.v
    ELSE a.ty = b.ty /\ a.v = b.v

DictEq(d, e) ==
    /\ DOMAIN d = DOMAIN e
    /\ \A k \in DOMAIN d : PyEq(d[k], e[k])

\* Sequences of <<key, value>> pairs with distinct keys, at most n long.
RECURSIVE Items(_, _, _)
Items(keys, vals, n) ==
    IF n = 0 THEN {<<>>}
    ELSE {<<>>} \cup
         UNION {{<<<<k, v>>>> \o rest : rest \in Items(keys \ {k}, vals, n - 1)} :
                <<k, v>> \in keys \X vals}

ItemKeys(items) == {items[i][1] : i \in 1..Len(items)}

\* -------------------------------------------------------------------------
\* Field, Row, Table
\* -------------------------------------------------------------------------
Field(name, data_type) == [name |-> name, data_type |-> data_type]

RECURSIVE RowFrom(_, _, _)
RowFrom(kwargs, i, fields) ==
    IF i > Len(kwargs) THEN fields
    ELSE RowFrom(kwargs, i + 1, DictSet(fields, kwargs[i][1], kwargs[i][2]))

Row(kwargs) == [fields |-> RowFrom(kwargs, 1, EmptyDict)]

Table(name) ==
    [name |-> name, fields |-> <<>>, rows |-> <<>>, related_tables |-> EmptyDict]

TableAddField(tbl, field_name, data_type) ==
    [tbl EXCEPT !.fields = Append(@, Field(field_name, data_type))]

RECURSIVE TableAddFields(_, _, _)
TableAddFields(tbl, fields_dict, i) ==
    IF i > Len(fields_dict) THEN tbl
    ELSE TableAddFields(TableAddField(tbl, fields_dict[i][1], fields_dict[i][2]),
                        fields_dict, i + 1)

\* next((field.data_type for field in fields if field.name == name), None)
ExpectedType(fields, field_name) ==
    LET hits == {i \in 1..Len(fields) : fields[i].name = field_name}
    IN IF hits = {} THEN "None"
       ELSE fields[CHOOSE i \in hits : \A j \in hits : i <= j].data_type

RECURSIVE CheckKwargs(_, _, _)
CheckKwargs(fields, kwargs, i) ==
    IF i > Len(kwargs) THEN "ok"
    ELSE LET expected == ExpectedType(fields, kwargs[i][1])
         IN IF expected = "None" THEN "unknown"
            ELSE IF ~isinstance(kwargs[i][2], expected) THEN "type"
            ELSE CheckKwargs(fields, kwargs, i + 1)

\* As AddRowError, but counting the distinct names of the schema.
AddRowErrorDistinctNames(fields, kwargs) ==
    IF Len(kwargs) # Cardinality({fields[i].name : i \in 1..Len(fields)})
    THEN "count"
    ELSE CheckKwargs(fields, kwargs, 1)

\* The ValueError add_row raises, by message, or "ok".
AddRowError(fields, kwargs) ==
    IF Len(kwargs) # Len(fields) THEN "count"
    ELSE CheckKwargs(fields, kwargs, 1)

\* As TableAddRow, but appending before validating.
TableAddRowAppendFirst(tbl, kwargs) ==
    [tbl EXCEPT !.rows = Append(@, Row(kwargs))]

TableAddRow(tbl, kwargs) ==
    IF AddRowError(tbl.fields, kwargs) # "ok" THEN tbl
    ELSE [tbl EXCEPT !.rows = Append(@, Row(kwargs))]

\* -------------------------------------------------------------------------
\* Conditions: the callables passed to find and findMany
\* -------------------------------------------------------------------------
CondTrue == [kind |-> "true", name |-> "", value |-> StrAna, mapping |-> EmptyDict]
CondFalse == [kind |-> "false", name |-> "", value |-> StrAna, mapping |-> EmptyDict]
CondHas(n, v) == [kind |-> "has", name |-> n, value |-> v, mapping |-> EmptyDict]
CondEq(m) == [kind |-> "eq", name |-> "", value |-> StrAna, mapping |-> m]

\* condition(row)
Holds(condition, row) ==
    CASE condition.kind = "true" -> TRUE
      [] condition.kind = "false" -> FALSE
      [] condition.kind = "has" ->
            /\ condition.name \in DOMAIN row.fields
            /\ PyEq(row.fields[condition.name], condition.value)
      [] condition.kind = "eq" -> DictEq(row.fields, condition.mapping)

Conditions(tbl, names, values) ==
    {CondTrue, CondFalse}
    \cup {CondHas(n, v) : n \in names, v \in values}
    \cup {CondEq(tbl.rows[i].fields) : i \in 1..Len(tbl.rows)}

\* -------------------------------------------------------------------------
\* find, findMany: the scans.  A Row is returned by reference, here its
\* index in the row list; 0 is None.
\* -------------------------------------------------------------------------
\* As FindScan, but keeping the last match instead of returning the first.
RECURSIVE FindScanLast(_, _, _)
FindScanLast(rows, condition, i) ==
    IF i > Len(rows) THEN 0
    ELSE LET later == FindScanLast(rows, condition, i + 1)
         IN IF later # 0 THEN later
            ELSE IF Holds(condition, rows[i]) THEN i ELSE 0

RECURSIVE FindScan(_, _, _)
FindScan(rows, condition, i) ==
    IF i > Len(rows) THEN 0
    ELSE IF Holds(condition, rows[i]) THEN i
    ELSE FindScan(rows, condition, i + 1)

\* As FindManyScan, but scanning the whole list and truncating afterwards.
RECURSIVE FindManyScanTruncate(_, _, _, _, _, _)
FindManyScanTruncate(rows, condition, amount, i, rowsFound, evaluated) ==
    IF i > Len(rows)
    THEN [rowsFound |-> IF amount > 0 /\ Len(rowsFound) > amount
                        THEN SubSeq(rowsFound, 1, amount) ELSE rowsFound,
          evaluated |-> evaluated]
    ELSE FindManyScanTruncate(rows, condition, amount, i + 1,
                              IF Holds(condition, rows[i])
                              THEN Append(rowsFound, i) ELSE rowsFound,
                              Append(evaluated, i))

\* As FindManyScan, but leaving the loop once amount or more rows are found.
RECURSIVE FindManyScanAtLeast(_, _, _, _, _, _)
FindManyScanAtLeast(rows, condition, amount, i, rowsFound, evaluated) ==
    IF i > Len(rows) THEN [rowsFound |-> rowsFound, evaluated |-> evaluated]
    ELSE IF Holds(condition, rows[i])
         THEN IF Len(rowsFound) + 1 >= amount
              THEN [rowsFound |-> Append(rowsFound, i),
                    evaluated |-> Append(evaluated, i)]
              ELSE FindManyScanAtLeast(rows, condition, amount, i + 1,
                                       Append(rowsFound, i), Append(evaluated, i))
         ELSE FindManyScanAtLeast(rows, condition, amount, i + 1,
                                  rowsFound, Append(evaluated, i))

\* rowsFound: the list built so far; evaluated: the rows condition() was
\* called on, in order.
RECURSIVE FindManyScan(_, _, _, _, _, _)
FindManyScan(rows, condition, amount, i, rowsFound, evaluated) ==
    IF i > Len(rows) THEN [rowsFound |-> rowsFound, evaluated |-> evaluated]
    ELSE IF Holds(condition, rows[i])
         THEN IF Len(rowsFound) + 1 = amount
              THEN [rowsFound |-> Append(rowsFound, i),
                    evaluated |-> Append(evaluated, i)]
              ELSE FindManyScan(rows, condition, amount, i + 1,
                                Append(rowsFound, i), Append(evaluated, i))
         ELSE FindManyScan(rows, condition, amount, i + 1,
                           rowsFound, Append(evaluated, i))

\* -------------------------------------------------------------------------
\* Table operations on the object heap[t]
\* -------------------------------------------------------------------------
add_field(t, field_name, data_type) ==
    /\ heap' = [heap EXCEPT ![t] = TableAddField(@, field_name, data_type)]
    /\ outcome' = [op |-> "add_field", t |-> t]
    /\ UNCHANGED <<tables, created>>

add_fields(t, fields_dict) ==
    /\ heap' = [heap EXCEPT ![t] = TableAddFields(@, fields_dict, 1)]
    /\ outcome' = [op |-> "add_fields", t |-> t]
    /\ UNCHANGED <<tables, created>>

add_row(t, kwargs) ==
    /\ heap' = [heap EXCEPT ![t] = TableAddRow(@, kwargs)]
    /\ outcome' = [op |-> "add_row", t |-> t, kwargs |-> kwargs,
                   err |-> AddRowError(heap[t].fields, kwargs)]
    /\ UNCHANGED <<tables, created>>

\* As find, but taking the row it returns out of the table.
find_consuming(t, condition) ==
    LET r == FindScan(heap[t].rows, condition, 1)
    IN /\ outcome' = [op |-> "find", t |-> t, condition |-> condition,
                      result |-> r]
       /\ heap' = IF r = 0 THEN heap
                  ELSE [heap EXCEPT ![t].rows =
                            SubSeq(@, 1, r - 1) \o SubSeq(@, r + 1, Len(@))]
       /\ UNCHANGED <<tables, created>>

find(t, condition) ==
    /\ outcome' = [op |-> "find", t |-> t, condition |-> condition,
                   result |-> FindScan(heap[t].rows, condition, 1)]
    /\ UNCHANGED <<heap, tables, created>>

findMany(t, condition, amount) ==
    /\ LET r == FindManyScan(heap[t].rows, condition, amount, 1, <<>>, <<>>)
       IN outcome' = [op |-> "findMany", t |-> t, condition |-> condition,
                      amount |-> amount, result |-> r.rowsFound,
                      evaluated |-> r.evaluated]
    /\ UNCHANGED <<heap, tables, created>>

\* -------------------------------------------------------------------------
\* Database operations
\* -------------------------------------------------------------------------
\* As DatabaseCreate, but keeping the table already stored under the name.
DatabaseCreateKeepOld(h, tbls, table_name) ==
    [heap |-> Append(h, Table(table_name)),
     tables |-> IF table_name \in DOMAIN tbls THEN tbls
                ELSE DictSet(tbls, table_name, Len(h) + 1),
     result |-> Len(h) + 1]

\* The heap after create(table_name), and the reference it returns.
DatabaseCreate(h, tbls, table_name) ==
    [heap |-> Append(h, Table(table_name)),
     tables |-> DictSet(tbls, table_name, Len(h) + 1),
     result |-> Len(h) + 1]

\* As DatabaseGet, but falling back to some stored table.
DatabaseGetAny(tbls, table_name) ==
    IF table_name \in DOMAIN tbls THEN tbls[table_name]
    ELSE IF DOMAIN tbls # {} THEN tbls[CHOOSE n \in DOMAIN tbls : TRUE]
    ELSE 0

\* The reference get(table_name) returns, or 0 for TableNotFoundError.
DatabaseGet(tbls, table_name) ==
    IF table_name \in DOMAIN tbls THEN tbls[table_name] ELSE 0

create(table_name) ==
    /\ LET c == DatabaseCreate(heap, tables, table_name)
       IN /\ heap' = c.heap
          /\ tables' = c.tables
          /\ created' = Append(created, [name |-> table_name, ref |-> c.result])
          /\ outcome' = [op |-> "create", name |-> table_name, result |-> c.result]

get(table_name) ==
    /\ outcome' = [op |-> "get", name |-> table_name,
                   result |-> DatabaseGet(tables, table_name)]
    /\ UNCHANGED <<heap, tables, created>>

\* -------------------------------------------------------------------------
\* The callers: each operation with its arguments drawn from small sets
\* -------------------------------------------------------------------------
DoAddField(names, types, maxFields) ==
    \E t \in 1..Len(heap), n \in names, ty \in types :
        /\ Len(heap[t].fields) < maxFields
        /\ add_field(t, n, ty)

DoAddFields(names, types, maxFields) ==
    \E t \in 1..Len(heap) :
        \E fd \in Items(names, types, maxFields - Len(heap[t].fields)) :
            add_fields(t, fd)

DoAddRow(names, values, maxFields, maxRows) ==
    \E t \in 1..Len(heap), kw \in Items(names, values, maxFields) :
        /\ AddRowError(heap[t].fields, kw) = "ok" => Len(heap[t].rows) < maxRows
        /\ add_row(t, kw)

DoFind(names, values) ==
    \E t \in 1..Len(heap) :
        \E c \in Conditions(heap[t], names, values) : find(t, c)

DoFindMany(names, values) ==
    \E t \in 1..Len(heap) :
        \E c \in Conditions(heap[t], names, values), a \in Amounts :
            findMany(t, c, a)

DoCreate ==
    \E n \in TableNames :
        /\ Len(heap) < DbMaxTables
        /\ create(n)

DoGet == \E n \in TableNames : get(n)

\* -------------------------------------------------------------------------
\* Spec: one Table, its schema and row validation
\* -------------------------------------------------------------------------
Init ==
    /\ heap = <<Table("users")>>
    /\ tables = EmptyDict
    /\ created = <<>>
    /\ outcome = [op |-> "init"]

Next ==
    \/ DoAddField(FieldNames, Types, MaxFields)
    \/ DoAddFields(FieldNames, Types, MaxFields)
    \/ DoAddRow(FieldNames, Values, MaxFields, MaxRows)

Spec == Init /\ [][Next]_vars

\* -------------------------------------------------------------------------
\* SpecQuery: one Table, filled and searched
\* -------------------------------------------------------------------------
NextQuery ==
    \/ DoAddField(QFieldNames, QTypes, MaxFields)
    \/ DoAddRow(QFieldNames, QValues, MaxFields, QMaxRows)
    \/ DoFind(QFieldNames, QValues)
    \/ DoFindMany(QFieldNames, QValues)

SpecQuery == Init /\ [][NextQuery]_vars

\* -------------------------------------------------------------------------
\* SpecDb: a Database, the tables it creates and hands out
\* -------------------------------------------------------------------------
InitDb ==
    /\ heap = <<>>
    /\ tables = EmptyDict
    /\ created = <<>>
    /\ outcome = [op |-> "init"]

NextDb ==
    \/ DoCreate
    \/ DoGet
    \/ DoAddField(QFieldNames, QTypes, DbMaxFields)
    \/ DoAddRow(QFieldNames, DbValues, DbMaxFields, DbMaxRows)

SpecDb == InitDb /\ [][NextDb]_vars

\* -------------------------------------------------------------------------
\* Vocabulary of the properties
\* -------------------------------------------------------------------------
Range(seq) == {seq[i] : i \in 1..Len(seq)}

SchemaNames(fields) == {fields[i].name : i \in 1..Len(fields)}

DeclaredTypes(fields, field_name) ==
    {fields[i].data_type : i \in {j \in 1..Len(fields) : fields[j].name = field_name}}

HasDuplicateNames(fields) ==
    \E i, j \in 1..Len(fields) : i < j /\ fields[i].name = fields[j].name

\* The supplied names are exactly the schema's names and every value is an
\* instance of the type declared for its name.
KwargsConform(fields, kwargs) ==
    /\ ItemKeys(kwargs) = SchemaNames(fields)
    /\ \A i \in 1..Len(kwargs) :
          \A ty \in DeclaredTypes(fields, kwargs[i][1]) :
              isinstance(kwargs[i][2], ty)

\* The mapping a list of named values denotes.
KwargsMapping(kwargs) ==
    [k \in ItemKeys(kwargs) |->
        kwargs[CHOOSE i \in 1..Len(kwargs) : kwargs[i][1] = k][2]]

\* -------------------------------------------------------------------------
\* Properties of Spec
\* -------------------------------------------------------------------------

\* C1: add_row succeeds if and only if the supplied names are exactly the
\* names of the schema's fields and every value's type matches the declared
\* type of its field; otherwise it raises the schema-mismatch error.
C1_AddRowIffConform ==
    outcome.op = "add_row" =>
        (outcome.err = "ok" <=>
            KwargsConform(heap[outcome.t].fields, outcome.kwargs))

\* C2: a failed add_row leaves the rows and the fields of the table as they
\* were; a successful one appends exactly one row, built from exactly the
\* supplied named values, and leaves the earlier rows and the fields as
\* they were.
C2_AddRowStep ==
    outcome'.op = "add_row" =>
        LET t == outcome'.t
            kw == outcome'.kwargs
            old == heap[t].rows
            new == heap'[t].rows
        IN /\ Len(heap') = Len(heap)
           /\ \A u \in 1..Len(heap) : u # t => heap'[u] = heap[u]
           /\ heap'[t].fields = heap[t].fields
           /\ outcome'.err # "ok" => new = old
           /\ outcome'.err = "ok" =>
                 /\ Len(new) = Len(old) + 1
                 /\ SubSeq(new, 1, Len(old)) = old
                 /\ new[Len(new)].fields = KwargsMapping(kw)

C2_AddRowAllOrNothing == [][C2_AddRowStep]_vars

\* A call that failed on the type of a value, on a table that has rows.
C2_Witness ==
    /\ outcome.op = "add_row"
    /\ outcome.err = "type"
    /\ Len(heap[outcome.t].rows) >= 1

\* C3: every row of every table has exactly the names of the table's schema
\* fields as its keys.
C3_RowKeysAreSchemaNames ==
    \A t \in 1..Len(heap) :
        \A i \in 1..Len(heap[t].rows) :
            DOMAIN heap[t].rows[i].fields = SchemaNames(heap[t].fields)

\* C10: once the schema has two fields of one name every add_row fails, so
\* the rows never grow again; and a call whose number of values differs from
\* the number of fields fails with the count error.
C10_AddRowState ==
    outcome.op = "add_row" =>
        LET fields == heap[outcome.t].fields
        IN /\ HasDuplicateNames(fields) => outcome.err # "ok"
           /\ Len(outcome.kwargs) # Len(fields) => outcome.err = "count"

C10_RowsFrozenStep ==
    \A t \in 1..Len(heap) :
        HasDuplicateNames(heap[t].fields) =>
            /\ t <= Len(heap')
            /\ heap'[t].rows = heap[t].rows
            /\ HasDuplicateNames(heap'[t].fields)

C10_DuplicateNamesBlockRows == [](C10_AddRowState) /\ [][C10_RowsFrozenStep]_vars

\* A call with as many values as the schema has fields, on a schema with a
\* repeated name.
C10_Witness ==
    /\ outcome.op = "add_row"
    /\ HasDuplicateNames(heap[outcome.t].fields)
    /\ Len(outcome.kwargs) = Len(heap[outcome.t].fields)
    /\ outcome.err # "count"

\* -------------------------------------------------------------------------
\* Properties of SpecQuery
\* -------------------------------------------------------------------------
\* The rows of the searched table the condition is true of.
MatchSet(rows, condition) == {i \in 1..Len(rows) : Holds(condition, rows[i])}

IsIncreasing(seq) == \A i, j \in 1..Len(seq) : i < j => seq[i] < seq[j]

\* The k smallest members of S.
FirstK(S, k) == {i \in S : Cardinality({j \in S : j < i}) < k}

\* C4: for a limit k > 0, findMany returns at most k rows, they are the
\* first k matching rows in insertion order (all of them when fewer match),
\* and no row after the k-th match is evaluated.
C4_FindManyLimit ==
    (outcome.op = "findMany" /\ outcome.amount > 0) =>
        LET rows == heap[outcome.t].rows
            k == outcome.amount
            res == outcome.result
        IN /\ Len(res) <= k
           /\ IsIncreasing(res)
           /\ Range(res) = FirstK(MatchSet(rows, outcome.condition), k)
           /\ Len(res) = k => outcome.evaluated = [i \in 1..res[k] |-> i]

\* A limited call that reached its limit and left a matching row behind.
C4_Witness ==
    /\ outcome.op = "findMany"
    /\ outcome.amount > 0
    /\ Len(outcome.result) = outcome.amount
    /\ \E i \in MatchSet(heap[outcome.t].rows, outcome.condition) :
          i > outcome.result[outcome.amount]

\* C5: for a limit of 0 or less, findMany evaluates the condition on every
\* row and returns all matching rows, in insertion order.
C5_FindManyUnbounded ==
    (outcome.op = "findMany" /\ outcome.amount <= 0) =>
        LET rows == heap[outcome.t].rows
            res == outcome.result
        IN /\ IsIncreasing(res)
           /\ Range(res) = MatchSet(rows, outcome.condition)
           /\ outcome.evaluated = [i \in 1..Len(rows) |-> i]

\* A call with a negative limit that returned several rows and skipped one.
C5_Witness ==
    /\ outcome.op = "findMany"
    /\ outcome.amount < 0
    /\ Len(outcome.result) >= 2
    /\ Len(outcome.result) < Len(heap[outcome.t].rows)

\* C6: find returns the first row in insertion order the condition is true
\* of, and None exactly when it is true of no row; a find right after a
\* successful add_row, for the condition "the fields equal the inserted
\* values", returns a row whose fields equal the inserted values.
C6_FindState ==
    outcome.op = "find" =>
        LET M == MatchSet(heap[outcome.t].rows, outcome.condition)
        IN /\ outcome.result = 0 <=> M = {}
           /\ outcome.result # 0 =>
                 /\ outcome.result \in M
                 /\ \A j \in M : outcome.result <= j

C6_RoundTripStep ==
    ( /\ outcome.op = "add_row"
      /\ outcome.err = "ok"
      /\ outcome'.op = "find"
      /\ outcome'.t = outcome.t
      /\ outcome'.condition = CondEq(KwargsMapping(outcome.kwargs)) ) =>
        /\ outcome'.result # 0
        /\ DictEq(heap'[outcome.t].rows[outcome'.result].fields,
                  KwargsMapping(outcome.kwargs))

C6_FindFirstMatch == [](C6_FindState) /\ [][C6_RoundTripStep]_vars

\* The row inserted last, found by its values behind rows that differ.
C6_Witness ==
    /\ outcome.op = "find"
    /\ outcome.condition.kind = "eq"
    /\ outcome.result > 1
    /\ outcome.result = Len(heap[outcome.t].rows)

\* C9: find and findMany leave the fields and the rows of every table as
\* they were, whether or not a row matched.
C9_LookupStep ==
    outcome'.op \in {"find", "findMany"} =>
        /\ heap' = heap
        /\ tables' = tables

C9_LookupReadOnly == [][C9_LookupStep]_vars

\* A find that returned a row of a table with several rows.
C9_Witness ==
    /\ outcome.op = "find"
    /\ outcome.result # 0
    /\ Len(heap[outcome.t].rows) >= 2

\* -------------------------------------------------------------------------
\* Properties of SpecDb
\* -------------------------------------------------------------------------
\* The positions in `created` of the create calls for a name.
CreateCalls(table_name) ==
    {i \in 1..Len(created) : created[i].name = table_name}

\* The reference the most recent create(table_name) returned.
LatestCreated(table_name) ==
    created[CHOOSE i \in CreateCalls(table_name) :
                \A j \in CreateCalls(table_name) : j <= i].ref

\* C7: get(name) returns the very object the most recent create(name)
\* returned; right after create(name) the table stored under the name is the
\* new one and it is empty; a table is stored under its own name.
C7_GetReturnsCreated ==
    /\ \A n \in DOMAIN tables :
          /\ CreateCalls(n) # {}
          /\ tables[n] = LatestCreated(n)
          /\ heap[tables[n]].name = n
    /\ (outcome.op = "get" /\ CreateCalls(outcome.name) # {}) =>
          outcome.result = LatestCreated(outcome.name)
    /\ outcome.op = "create" =>
          /\ outcome.result = LatestCreated(outcome.name)
          /\ outcome.name \in DOMAIN tables
          /\ tables[outcome.name] = outcome.result
          /\ heap[outcome.result].fields = <<>>
          /\ heap[outcome.result].rows = <<>>

\* A get of a name created twice, whose first table had received a row.
C7_Witness ==
    /\ outcome.op = "get"
    /\ Cardinality(CreateCalls(outcome.name)) >= 2
    /\ outcome.result = LatestCreated(outcome.name)
    /\ \E i \in CreateCalls(outcome.name) :
          /\ created[i].ref # outcome.result
          /\ Len(heap[created[i].ref].rows) >= 1

\* C8: get(name) fails exactly when create(name) was never called; a get
\* changes neither the mapping nor any table; a create of one name changes
\* neither whether another name is stored nor the table stored under it.
C8_GetState ==
    outcome.op = "get" =>
        (outcome.result = 0 <=> CreateCalls(outcome.name) = {})

C8_GetCreateStep ==
    /\ outcome'.op = "get" => (heap' = heap /\ tables' = tables)
    /\ outcome'.op = "create" =>
          \A n \in TableNames \ {outcome'.name} :
              /\ n \in DOMAIN tables' <=> n \in DOMAIN tables
              /\ n \in DOMAIN tables =>
                    /\ tables'[n] = tables[n]
                    /\ heap'[tables[n]] = heap[tables[n]]

C8_GetFailsIffNeverCreated == [](C8_GetState) /\ [][C8_GetCreateStep]_vars

\* A failed get on a database that stores a table under another name.
C8_Witness ==
    /\ outcome.op = "get"
    /\ outcome.result = 0
    /\ DOMAIN tables # {}

====
